---------------------------- MODULE Spec2Model ----------------------------
(***************************************************************************)
(* A model of pattern_analyzer.py (cross-match pattern detection):         *)
(*   - subseq_similarity / _is_subsequence            (SpecSim)            *)
(*   - build_fingerprint_sequence and its helpers     (SpecFp)             *)
(*   - find_patterns: clustering, scoring, ranking    (Spec)               *)
(*   - build_all_matches_dangers_for_patterns         (SpecEnrich)         *)
(*   - the scoring step of find_patterns on given counts (SpecScore)       *)
(* Floating point values are modelled exactly: a similarity is the pair    *)
(* <<numerator, denominator>>, rates and lift are integer ratios, and the  *)
(* published (rounded) fields are integers in units of the rounding step.  *)
(***************************************************************************)
EXTENDS Integers, Sequences, FiniteSets, TLC

VARIABLES
    \* subseq_similarity: the two arguments and the returned value
    sim_a, sim_b, sim_out,
    \* build_fingerprint_sequence: its arguments and the returned value
    fp_risk_df, fp_peak, fp_window, fp_stopwords, fp_top_k, fp_tables, fp_out,
    \* find_patterns: arguments
    all_dangers, baseline_dangers, min_subseq_similarity,
    min_match_frequency, min_occurrences, min_lift,
    \* find_patterns: locals (pc is the position in the function body)
    pc, idx, clusters, out, run, first_out,
    \* build_all_matches_dangers_for_patterns: arguments, locals, outcome
    en_mode, en_matches, en_detected, en_pc, en_idx, en_calls, en_all_dangers,
    \* the scoring step of find_patterns on its own: the counts it is given,
    \* its position, and the record it appends
    sc_in, sc_pc, sc_out

simVars == <<sim_a, sim_b, sim_out>>
fpVars == <<fp_risk_df, fp_peak, fp_window, fp_stopwords, fp_top_k, fp_tables, fp_out>>
fpatArgs == <<all_dangers, baseline_dangers, min_subseq_similarity,
              min_match_frequency, min_occurrences, min_lift>>
fpatVars == <<fpatArgs, pc, idx, clusters, out, run, first_out>>
enArgs == <<en_mode, en_matches, en_detected>>
enVars == <<enArgs, en_pc, en_idx, en_calls, en_all_dangers>>
scVars == <<sc_in, sc_pc, sc_out>>
vars == <<simVars, fpVars, fpatVars, enVars, scVars>>

\* An argument that may be None is a record: None itself, or Some(v)
None == [some |-> FALSE]
Some(v) == [some |-> TRUE, val |-> v]
IsNone(x) == ~x.some

--------------------------------------------------------------------------
(* Bounds of the model *)

\* longest argument of subseq_similarity
MaxSeqLen == 3
\* rows of a risk timeline
MaxRows == 3
\* largest top_k tried
MaxTopK == 4
\* danger moments in the baseline population
MaxBase == 4
\* matches handed to the enrichment pass
MaxMatches == 2
\* scoring step alone: largest occurrence count, largest denominator of the
\* baseline goal rate in lowest terms, largest match count
MaxScoreOcc == 3
MaxRateDen == 41
MaxScoreMatches == 6

--------------------------------------------------------------------------
(* Configuration constants of pattern_analyzer.py *)

DEFAULT_FINGERPRINT_WINDOW_SEC == 60
DEFAULT_TOP_K_CODES == 4
DEFAULT_MIN_SUBSEQ_SIMILARITY == <<85, 100>>
MIN_PATTERN_LEN == 2
REQUIRE_CAUSE_CODE == TRUE
MaxExamples == 5

DEFAULT_STOPWORDS ==
    {"BUILD UP", "GOALS", "SET PIECES", "PLAYERS IN THE BOX",
     "BALL IN FINAL THIRD", "BALL IN THE BOX"}

CAUSE_CODES ==
    {"ATTACKING TRANSITION", "DEFENSIVE TRANSITION", "PROGRESSION",
     "CREATING CHANCES"}

--------------------------------------------------------------------------
(* Generic helpers *)

Min(x, y) == IF x <= y THEN x ELSE y
Max(x, y) == IF x >= y THEN x ELSE y

\* all sequences over S of length at most n
SeqsUpTo(S, n) == UNION {[1..k -> S] : k \in 0..n}

\* Python truthiness of a list: "not seq"
IsEmpty(seq) == Len(seq) = 0

\* comparison of two non-negative ratios <<n, d>>, d > 0
RatGeq(r, t) == r[1] * t[2] >= t[1] * r[2]
RatEq(r, t) == r[1] * t[2] = t[1] * r[2]

--------------------------------------------------------------------------
(* Sequence similarity: _is_subsequence, subseq_similarity *)

\* `any(x == y for y in it)`: the iterator over `longer` stands before
\* position j; the result is the position after the first y equal to x, or 0
\* when the iterator is exhausted without a match.
RECURSIVE AdvanceIter(_, _, _)
AdvanceIter(x, longer, j) ==
    IF j > Len(longer) THEN 0
    ELSE IF longer[j] = x THEN j + 1
    ELSE AdvanceIter(x, longer, j + 1)

\* `all(any(x == y for y in it) for x in shorter)` from element i on
RECURSIVE AllFrom(_, _, _, _)
AllFrom(shorter, i, longer, j) ==
    IF i > Len(shorter) THEN TRUE
    ELSE LET nj == AdvanceIter(shorter[i], longer, j)
         IN  IF nj = 0 THEN FALSE ELSE AllFrom(shorter, i + 1, longer, nj)

\* a plausible slip: membership of every element, order ignored
IsSubsequenceAnyOrder(shorter, longer) ==
    \A i \in 1..Len(shorter) : \E j \in 1..Len(longer) : longer[j] = shorter[i]

IsSubsequence(shorter, longer) ==
    IF IsEmpty(shorter) THEN TRUE ELSE AllFrom(shorter, 1, longer, 1)

\* the float overlap / max(len(a), len(b)) as <<overlap, max>>
\* a plausible slip: the common length is divided by the shorter length
subseq_similarityOverShorter(a, b) ==
    IF IsEmpty(a) /\ IsEmpty(b) THEN <<1, 1>>
    ELSE IF IsEmpty(a) \/ IsEmpty(b) THEN <<0, 1>>
    ELSE IF Len(a) <= Len(b)
         THEN <<(IF IsSubsequence(a, b) THEN Len(a) ELSE 0), Len(a)>>
         ELSE <<(IF IsSubsequence(b, a) THEN Len(b) ELSE 0), Len(b)>>

subseq_similarity(a, b) ==
    IF IsEmpty(a) /\ IsEmpty(b) THEN <<1, 1>>
    ELSE IF IsEmpty(a) \/ IsEmpty(b) THEN <<0, 1>>
    ELSE IF Len(a) <= Len(b)
         THEN <<(IF IsSubsequence(a, b) THEN Len(a) ELSE 0), Max(Len(a), Len(b))>>
         ELSE <<(IF IsSubsequence(b, a) THEN Len(b) ELSE 0), Max(Len(a), Len(b))>>


--------------------------------------------------------------------------
(* Fingerprint building *)

\* _has_cause_code
HasCauseCode(seq) == \E i \in 1..Len(seq) : seq[i] \in CAUSE_CODES

\* _normalize_active_events_to_codes for the shapes the timeline provider
\* yields here: None / NaN, or a list of code strings (str(x) of a string is
\* the string itself)
NormalizeActiveEventsToCodes(active_events) ==
    IF IsNone(active_events) THEN <<>> ELSE active_events.val

\* _dedupe_preserve_order
RECURSIVE DedupeFrom(_, _, _)
DedupeFrom(seq, i, acc) ==
    IF i > Len(seq) THEN acc
    ELSE IF \E j \in 1..Len(acc) : acc[j] = seq[i]
         THEN DedupeFrom(seq, i + 1, acc)
         ELSE DedupeFrom(seq, i + 1, Append(acc, seq[i]))

DedupePreserveOrder(seq) == DedupeFrom(seq, 1, <<>>)

\* dict.get(code, 0)
TableGet(table, code) == IF code \in DOMAIN table THEN table[code] ELSE 0

\* _code_weight: max of the two externally supplied weight tables
CodeWeight(tables, code) ==
    Max(TableGet(tables.opponent, code), TableGet(tables.barca, code))

\* list.sort(key=weight, reverse=True): stable, descending.  Insert x after
\* every element whose weight is >= the weight of x.
RECURSIVE InsertDesc(_, _, _)
InsertDesc(sorted, x, tables) ==
    IF sorted = <<>> THEN <<x>>
    ELSE IF CodeWeight(tables, Head(sorted)) >= CodeWeight(tables, x)
         THEN <<Head(sorted)>> \o InsertDesc(Tail(sorted), x, tables)
         ELSE <<x>> \o sorted

RECURSIVE SortByWeightDesc(_, _, _)
SortByWeightDesc(seq, i, tables) ==
    IF i = 0 THEN <<>>
    ELSE InsertDesc(SortByWeightDesc(seq, i - 1, tables), seq[i], tables)

\* Python's seq[:k]
SliceTo(seq, k) ==
    IF k >= 0 THEN SubSeq(seq, 1, Min(k, Len(seq)))
    ELSE SubSeq(seq, 1, Max(Len(seq) + k, 0))

\* a plausible slip: the slice keeps one element too many (scored[:top_k + 1])
KeepSetOffByOne(unique, top_k, tables) ==
    LET scored == SortByWeightDesc(unique, Len(unique), tables)
        top == SliceTo(scored, top_k + 1)
    IN  {top[i] : i \in 1..Len(top)}

\* keep = {c for c, _w in scored[:top_k]}
KeepSet(unique, top_k, tables) ==
    LET scored == SortByWeightDesc(unique, Len(unique), tables)
        top == SliceTo(scored, top_k)
    IN  {top[i] : i \in 1..Len(top)}

\* a plausible slip: the first top_k codes are kept, whatever their weights
CompressFirstK(seq, top_k, tables) == SliceTo(DedupePreserveOrder(seq), top_k)

\* _compress_sequence_keep_order
CompressSequenceKeepOrder(seq, top_k, tables) ==
    IF IsEmpty(seq) THEN <<>>
    ELSE LET unique == DedupePreserveOrder(seq)
             keep == KeepSet(unique, top_k, tables)
         IN  SelectSeq(unique, LAMBDA c : c \in keep)

\* the rows of risk_df with t0 <= timestamp_sec <= t1, in frame order
WindowRows(rows, t0, t1) ==
    SelectSeq(rows, LAMBDA r : r.timestamp_sec >= t0 /\ r.timestamp_sec <= t1)

\* [c for c in codes if c in cur_set and c not in prev_set]
Entered(codes, cur_set, prev_set) ==
    SelectSeq(codes, LAMBDA c : c \in cur_set /\ c \notin prev_set)

\* the loop over window.iterrows(), from row i on
RECURSIVE WalkRows(_, _, _, _, _)
WalkRows(window, i, prev_set, seq, stopwords) ==
    IF i > Len(window) THEN seq
    ELSE LET codes == NormalizeActiveEventsToCodes(window[i].active_events)
             cur_set == {codes[j] : j \in 1..Len(codes)} \ (stopwords \cup {""})
         IN  WalkRows(window, i + 1, cur_set,
                      seq \o Entered(codes, cur_set, prev_set), stopwords)

MinTimestamp(rows) ==
    CHOOSE t \in {rows[i].timestamp_sec : i \in 1..Len(rows)} :
        \A i \in 1..Len(rows) : t <= rows[i].timestamp_sec

\* build_fingerprint_sequence.  risk_df is None or Some of a frame
\* [columns_ok, rows]; columns_ok is false when timestamp_sec or
\* active_events is missing from the frame's columns.
build_fingerprint_sequence(risk_df, peak_time_sec, window_sec, stopwords_arg, top_k, tables) ==
    LET stopwords == IF IsNone(stopwords_arg) THEN DEFAULT_STOPWORDS
                     ELSE stopwords_arg.val
    IN  IF IsNone(risk_df) THEN <<>>
        ELSE IF Len(risk_df.val.rows) = 0 THEN <<>>
        ELSE IF ~risk_df.val.columns_ok THEN <<>>
        ELSE LET rows == risk_df.val.rows
                 t0 == Max(peak_time_sec - window_sec, MinTimestamp(rows))
                 t1 == peak_time_sec
                 window == WindowRows(rows, t0, t1)
                 seq == WalkRows(window, 1, {}, <<>>, stopwords)
             IN  CompressSequenceKeepOrder(DedupePreserveOrder(seq), top_k, tables)

--------------------------------------------------------------------------
(* Arithmetic of the scorer *)

RECURSIVE Pow(_, _)
Pow(b, e) == IF e = 0 THEN 1 ELSE b * Pow(b, e - 1)

RECURSIVE Binom(_, _)
Binom(n, k) ==
    IF k = 0 \/ k = n THEN 1
    ELSE IF k < 0 \/ k > n THEN 0
    ELSE Binom(n - 1, k - 1) + Binom(n - 1, k)

RECURSIVE SumTo(_, _)
SumTo(f, n) == IF n < 0 THEN 0 ELSE f[n] + SumTo(f, n - 1)

\* number of decimal digits a power of ten shifts by
RECURSIVE Digits(_)
Digits(scale) == IF scale <= 1 THEN 0 ELSE 1 + Digits(scale \div 10)

\* long division: <<floor(r / den * 10^digits), the remainder left>> for
\* 0 <= r < den, one decimal digit at a time so that no intermediate product
\* leaves the integer range
RECURSIVE LongDiv(_, _, _, _)
LongDiv(r, den, digits, acc) ==
    IF digits = 0 THEN <<acc, r>>
    ELSE LongDiv((r * 10) % den, den, digits - 1, acc * 10 + (r * 10) \div den)

\* Python's round(num / den * scale) for num >= 0, den > 0 and scale a power
\* of ten: nearest integer, ties to the even one
RoundHalfEven(num, den, scale) ==
    LET qr == LongDiv(num % den, den, Digits(scale), num \div den)
        q == qr[1]
        r == qr[2]
    IN  IF 2 * r < den THEN q
        ELSE IF 2 * r > den THEN q + 1
        ELSE IF q % 2 = 0 THEN q ELSE q + 1

\* floor(num / den * 10^6) for 0 <= num <= den
MicroOf(num, den) == LongDiv(num % den, den, 6, num \div den)[1]

\* floor(x * y / 10^6) for x, y in 0..10^6 (two fixed-point factors)
MicroMul(x, y) ==
    LET x1 == x \div 1000
        x0 == x % 1000
        y1 == y \div 1000
        y0 == y % 1000
    IN  x1 * y1 + ((x1 * y0 + x0 * y1) * 1000 + x0 * y0) \div 1000000

\* table of math.log1p(n) / math.log1p(25) in units of 10^-6, the
\* ratio the scorer takes with support_target_occ = 25 (nearest value)
Log1pRatioMicro ==
    <<212746, 337195, 425492, 493981, 549941, 597254, 638238, 674389,
      706727, 735980, 762687, 787254, 810000, 831176, 850984, 869592,
      887135, 903730, 919473, 934448, 948726, 962370, 975433, 987962>>

--------------------------------------------------------------------------
(* find_patterns: helpers *)

\* ci_level: float = 0.90, as <<numerator, denominator>>
DEFAULT_CI_LEVEL == <<9, 10>>
SUPPORT_TARGET_OCC == 25
SUPPORT_TARGET_MATCHES == 6
\* CONF_TIER_HIGH = 0.70 and CONF_TIER_MED = 0.45 in units of 10^-6
CONF_TIER_HIGH == 700000
CONF_TIER_MED == 450000

FpPC == <<"PROGRESSION", "CREATING CHANCES">>
FpPAD == <<"PROGRESSION", "ATTACKING TRANSITION", "DEFENSIVE TRANSITION">>
FpPADC ==
    <<"PROGRESSION", "ATTACKING TRANSITION", "DEFENSIVE TRANSITION", "CREATING CHANCES">>
FpNoCause == <<"CORNER", "FREE KICK">>
FpShort == <<"PROGRESSION">>
FpPDC == <<"PROGRESSION", "DEFENSIVE TRANSITION", "CREATING CHANCES">>

Moment(m, t, sev, goal, fp, ttg) ==
    [match_name |-> m, peak_time |-> t, severity |-> sev, resulted_in_goal |-> goal,
     fingerprint_seq |-> fp, time_to_goal_sec |-> ttg]

\* the enriched danger moments the input lists are drawn from (fingerprints
\* are duplicate-free, at most DEFAULT_TOP_K_CODES long, without stopwords).
\* A list of moments holds references to these dicts: positions in the pool.
MomentPool ==
    <<Moment(1, 100, "critical", TRUE, FpPC, Some(10)),
      Moment(2, 200, "elevated", TRUE, FpPADC, Some(25)),
      Moment(1, 300, "critical", TRUE, FpPAD, None),
      Moment(1, 400, "normal", FALSE, FpPADC, None),
      Moment(2, 500, "normal", FALSE, FpNoCause, None),
      Moment(1, 600, "elevated", TRUE, FpShort, Some(40)),
      Moment(2, 700, "elevated", TRUE, FpPDC, Some(15))>>

\* the moments the general runs draw from, and those of the runs on nested
\* fingerprints (FpPC inside FpPDC inside FpPADC)
MomentRefs == 1..6
NestedRefs == {1, 2, 4, 6, 7}


\* d = all_dangers[i]
FocusMoment(i) == MomentPool[all_dangers[i]]

\* a plausible slip: `baseline_dangers or all_dangers`, an empty baseline list
\* falls back to the focus set
BaseOrFocus ==
    IF IsNone(baseline_dangers) \/ baseline_dangers.val = <<>>
    THEN all_dangers ELSE baseline_dangers.val

\* base = baseline_dangers if baseline_dangers is not None else all_dangers
Base == IF IsNone(baseline_dangers) THEN all_dangers ELSE baseline_dangers.val

BaseMoment(i) == MomentPool[Base[i]]

\* _valid_seq
ValidSeq(d) ==
    ~IsEmpty(d.fingerprint_seq) /\ Len(d.fingerprint_seq) >= MIN_PATTERN_LEN

\* base_occ and base_goals
BaseOcc == Cardinality({i \in 1..Len(Base) : ValidSeq(BaseMoment(i))})
BaseGoals ==
    Cardinality({i \in 1..Len(Base) :
                    ValidSeq(BaseMoment(i)) /\ BaseMoment(i).resulted_in_goal})

\* baseline_goal_rate as <<goals, occurrences>>, 0.0 as <<0, 1>>
BaselineGoalRate == IF BaseOcc # 0 THEN <<BaseGoals, BaseOcc>> ELSE <<0, 1>>

\* total_matches = len(set(match_name for d in base))
TotalMatches == Cardinality({BaseMoment(i).match_name : i \in 1..Len(Base)})

\* the three `continue`s at the head of the clustering loop
SkippedByClusterer(d) ==
    \/ IsEmpty(d.fingerprint_seq)
    \/ Len(d.fingerprint_seq) < MIN_PATTERN_LEN
    \/ (REQUIRE_CAUSE_CODE /\ ~HasCauseCode(d.fingerprint_seq))

\* sim >= min_subseq_similarity
Matches(seq, rep, threshold) == RatGeq(subseq_similarity(seq, rep), threshold)

\* a plausible substitution: the best-scoring cluster among those reaching
\* the threshold (the earliest of the best)
BestFit(seq, cls, threshold) ==
    LET ok == {k \in 1..Len(cls) : Matches(seq, cls[k].sequence, threshold)}
    IN  IF ok = {} THEN 0
        ELSE CHOOSE k \in ok :
                \A j \in ok :
                    LET sk == subseq_similarity(seq, cls[k].sequence)
                        sj == subseq_similarity(seq, cls[j].sequence)
                    IN  /\ RatGeq(sk, sj)
                        /\ (RatEq(sk, sj) => k <= j)

\* a plausible slip: the loop has no `break`, the last cluster reaching the
\* threshold receives the moment
LastFit(seq, cls, threshold) ==
    LET ok == {k \in 1..Len(cls) : Matches(seq, cls[k].sequence, threshold)}
    IN  IF ok = {} THEN 0 ELSE CHOOSE k \in ok : \A j \in ok : k >= j

\* `for c in clusters: if sim >= threshold: ... break`: the index of the
\* cluster the loop stops at, 0 when the loop runs to its end (placed = False)
FirstFit(seq, cls, threshold) ==
    LET ok == {k \in 1..Len(cls) : Matches(seq, cls[k].sequence, threshold)}
    IN  IF ok = {} THEN 0 ELSE CHOOSE k \in ok : \A j \in ok : k <= j

\* a plausible slip: <= instead of <, a later equal-length or shorter one wins
NewRepresentativeLongest(seq, rep) == IF Len(seq) > Len(rep) THEN seq ELSE rep

\* if len(seq) < len(c.sequence): c.sequence = seq
NewRepresentative(seq, rep) == IF Len(seq) < Len(rep) THEN seq ELSE rep

\* the body of `if sim >= min_subseq_similarity:` for cluster c and the
\* moment d = all_dangers[i].  examples holds references to the moments: their
\* positions in all_dangers.  members is a history field: the positions of all
\* moments attached so far (examples keeps only the first five).
Attach(c, d, i) ==
    [sequence |-> NewRepresentative(d.fingerprint_seq, c.sequence),
     matches |-> c.matches \cup {d.match_name},
     examples |-> IF Len(c.examples) < MaxExamples
                  THEN Append(c.examples, i) ELSE c.examples,
     goals_in_pattern |-> IF d.resulted_in_goal
                          THEN c.goals_in_pattern + 1 ELSE c.goals_in_pattern,
     members |-> Append(c.members, i)]

\* Pattern(sequence=seq, matches={match_name}, examples=[d], goals_in_pattern=...)
NewPattern(d, i) ==
    [sequence |-> d.fingerprint_seq,
     matches |-> {d.match_name},
     examples |-> <<i>>,
     goals_in_pattern |-> IF d.resulted_in_goal THEN 1 ELSE 0,
     members |-> <<i>>]

--------------------------------------------------------------------------
(* find_patterns: scoring of one cluster against the baseline set *)

\* match_count = len(c.matches)
MatchCount(c) == Cardinality(c.matches)

\* the baseline moments the scoring loop counts for representative rep
BaselineHits(rep) ==
    {i \in 1..Len(Base) :
        /\ ValidSeq(BaseMoment(i))
        /\ Matches(BaseMoment(i).fingerprint_seq, rep, min_subseq_similarity)}

RECURSIVE SumDeltas(_)
SumDeltas(S) ==
    IF S = {} THEN 0
    ELSE LET i == CHOOSE j \in S : TRUE
         IN  BaseMoment(i).time_to_goal_sec.val + SumDeltas(S \ {i})

\* a plausible slip: the counts come from the cluster's own members and its
\* running goal counter instead of the recount over the baseline set
CountsFromMembers(c) ==
    [occurrences |-> Len(c.members),
     goals_for_pattern |-> c.goals_in_pattern,
     deltas |-> {}]

\* the loop `for d in base:` of the scoring pass: occurrences,
\* goals_for_pattern, and deltas (the counted goal moments that carry a
\* time_to_goal_sec)
BaselineCounts(c) ==
    LET hits == BaselineHits(c.sequence)
    IN  [occurrences |-> Cardinality(hits),
         goals_for_pattern |-> Cardinality({i \in hits : BaseMoment(i).resulted_in_goal}),
         deltas |-> {i \in hits : /\ BaseMoment(i).resulted_in_goal
                                   /\ ~IsNone(BaseMoment(i).time_to_goal_sec)}]

\* pattern_goal_rate = goals_for_pattern / occurrences if occurrences else 0.0
PatternGoalRate(goals, occ) == IF occ # 0 THEN <<goals, occ>> ELSE <<0, 1>>

\* lift = pattern_goal_rate / baseline_goal_rate if baseline_goal_rate > 0 else 0.0
Lift(rate, base_rate) ==
    IF base_rate[1] > 0 THEN <<rate[1] * base_rate[2], rate[2] * base_rate[1]>>
    ELSE <<0, 1>>

\* the locals of one iteration of the scoring loop, and ci_level, which the
\* callers of find_patterns leave at its default
Locals(c) ==
    LET cnt == BaselineCounts(c)
        rate == PatternGoalRate(cnt.goals_for_pattern, cnt.occurrences)
    IN  [match_count |-> MatchCount(c),
         occurrences |-> cnt.occurrences,
         goals_for_pattern |-> cnt.goals_for_pattern,
         deltas |-> cnt.deltas,
         pattern_goal_rate |-> rate,
         baseline_goal_rate |-> BaselineGoalRate,
         lift |-> Lift(rate, BaselineGoalRate),
         ci_level |-> DEFAULT_CI_LEVEL]

\* a plausible slip: the lift filter is dropped
DiscardedIgnoringLift(loc) ==
    \/ loc.match_count < min_match_frequency
    \/ loc.occurrences < min_occurrences

\* the three `continue`s of the scoring loop
Discarded(loc) ==
    \/ loc.match_count < min_match_frequency
    \/ loc.occurrences < min_occurrences
    \/ ~RatGeq(loc.lift, min_lift)

\* 1 - beta.cdf(x, a, b) for integer a = k + 1, b = n - k + 1 and x = g / B is
\* the binomial tail P(Bin(n + 1, x) <= k), as <<numerator, B^(n+1)>>
ProbGtBaseline(k, n, base_rate) ==
    LET g == base_rate[1]
        B == base_rate[2]
        term == [j \in 0..k |-> Binom(n + 1, j) * Pow(g, j) * Pow(B - g, n + 1 - j)]
    IN  <<SumTo(term, k), Pow(B, n + 1)>>

\* support_occ = min(1.0, log1p(occurrences) / log1p(support_target_occ))
SupportOccMicro(n) ==
    IF n <= 0 THEN 0
    ELSE IF n >= SUPPORT_TARGET_OCC THEN 1000000
    ELSE Log1pRatioMicro[n]

\* support_matches = min(1.0, match_count / support_target_matches)
SupportMatchesMicro(mc) ==
    MicroOf(Min(mc, SUPPORT_TARGET_MATCHES), SUPPORT_TARGET_MATCHES)

\* support_scaler = 0.5 * support_occ + 0.5 * support_matches
SupportScalerMicro(loc) ==
    (SupportOccMicro(loc.occurrences) + SupportMatchesMicro(loc.match_count)) \div 2

\* confidence_score = p_gt_baseline * support_scaler, units of 10^-6
ConfidenceMicro(p_gt, loc) == MicroMul(MicroOf(p_gt[1], p_gt[2]), SupportScalerMicro(loc))

\* a plausible slip: the two cutoffs are taken in the wrong order
TierCutoffsSwapped(score_micro) ==
    IF score_micro >= CONF_TIER_MED THEN "high"
    ELSE IF score_micro >= CONF_TIER_HIGH THEN "medium"
    ELSE "low"

\* the if / elif / else on confidence_score (the unrounded product)
Tier(score_micro) ==
    IF score_micro >= CONF_TIER_HIGH THEN "high"
    ELSE IF score_micro >= CONF_TIER_MED THEN "medium"
    ELSE "low"

\* sorted(list(c.matches)); match names are numbered in their sort order
RECURSIVE SortedList(_)
SortedList(S) ==
    IF S = {} THEN <<>>
    ELSE LET m == CHOOSE x \in S : \A y \in S : x <= y
         IN  <<m>> \o SortedList(S \ {m})

ExampleSummary(ex) ==
    [match_name |-> ex.match_name, peak_time |-> ex.peak_time,
     severity |-> ex.severity, resulted_in_goal |-> ex.resulted_in_goal]

\* a plausible slip: the two shape parameters are passed in the wrong order
BetaPpfShapesSwapped(q, a, b) == [quantile |-> q, a |-> b, b |-> a]

\* beta.ppf(q, a, b): the point where the distribution function of
\* Beta(a, b) reaches q.  The value is kept as this defining triple; it is
\* compared with a rational through the distribution function (BetaCdfGeq).
BetaPpf(q, a, b) == [quantile |-> q, a |-> a, b |-> b]

\* the dict appended to out for cluster c, the k-th cluster created, with the
\* locals loc.  Rounded fields are integers in units of their rounding step
\* (round(x, 4): 10^-4, round(lift, 3): 10^-3, round(avg, 2): 10^-2);
\* frequency "m/t matches" is the pair <<m, t>>.  ci_low and ci_high are the
\* quantiles alpha and 1 - alpha of the posterior, alpha = (1 - ci_level) / 2,
\* before rounding.  cluster is a history field: the creation index of the
\* cluster.
ResultOf(c, k, loc) ==
    LET p_gt == ProbGtBaseline(loc.goals_for_pattern, loc.occurrences, loc.baseline_goal_rate)
        confidence == ConfidenceMicro(p_gt, loc)
    IN  [sequence |-> c.sequence,
         match_count |-> loc.match_count,
         frequency |-> <<loc.match_count, TotalMatches>>,
         occurrences |-> loc.occurrences,
         goals_in_pattern |-> loc.goals_for_pattern,
         pattern_goal_rate |->
             RoundHalfEven(loc.pattern_goal_rate[1], loc.pattern_goal_rate[2], 10000),
         baseline_goal_rate |->
             RoundHalfEven(loc.baseline_goal_rate[1], loc.baseline_goal_rate[2], 10000),
         lift |-> RoundHalfEven(loc.lift[1], loc.lift[2], 1000),
         avg_time_to_goal |->
             IF loc.deltas = {} THEN None
             ELSE Some(RoundHalfEven(SumDeltas(loc.deltas), Cardinality(loc.deltas), 100)),
         posterior_mean |->
             RoundHalfEven(loc.goals_for_pattern + 1, loc.occurrences + 2, 10000),
         ci_level |-> loc.ci_level,
         ci_low |->
             BetaPpf(<<loc.ci_level[2] - loc.ci_level[1], 2 * loc.ci_level[2]>>,
                     loc.goals_for_pattern + 1,
                     loc.occurrences - loc.goals_for_pattern + 1),
         ci_high |->
             BetaPpf(<<loc.ci_level[2] + loc.ci_level[1], 2 * loc.ci_level[2]>>,
                     loc.goals_for_pattern + 1,
                     loc.occurrences - loc.goals_for_pattern + 1),
         p_goal_rate_gt_baseline |-> RoundHalfEven(p_gt[1], p_gt[2], 10000),
         confidence_score |-> RoundHalfEven(confidence, 100, 1),
         confidence_tier |-> Tier(confidence),
         example_matches |-> SliceTo(SortedList(c.matches), 5),
         examples |-> [i \in 1..Len(c.examples) |-> ExampleSummary(FocusMoment(c.examples[i]))],
         cluster |-> k]

\* the sort key of out.sort
SortKey(p) == <<p.confidence_score, p.lift, p.match_count, p.occurrences>>

\* tuple comparison a >= b
RECURSIVE LexGeqFrom(_, _, _)
LexGeqFrom(a, b, i) ==
    IF i > Len(a) THEN TRUE
    ELSE IF a[i] > b[i] THEN TRUE
    ELSE IF a[i] < b[i] THEN FALSE
    ELSE LexGeqFrom(a, b, i + 1)

LexGeq(a, b) == LexGeqFrom(a, b, 1)

\* stable descending insertion: x goes after every element whose key is >= its key
RECURSIVE InsertResult(_, _)
InsertResult(sorted, x) ==
    IF sorted = <<>> THEN <<x>>
    ELSE IF LexGeq(SortKey(Head(sorted)), SortKey(x))
         THEN <<Head(sorted)>> \o InsertResult(Tail(sorted), x)
         ELSE <<x>> \o sorted

RECURSIVE SortPrefix(_, _)
SortPrefix(seq, i) ==
    IF i = 0 THEN <<>> ELSE InsertResult(SortPrefix(seq, i - 1), seq[i])

\* a plausible slip: reverse=True is forgotten and then the list is reversed
\* by hand, which turns equal keys around as well
SortResultsUnstable(results) ==
    LET n == Len(results)
        rev == [i \in 1..n |-> results[n + 1 - i]]
    IN  SortPrefix(rev, n)

\* out.sort(key=..., reverse=True): descending, and stable
SortResults(results) == SortPrefix(results, Len(results))

--------------------------------------------------------------------------
(* find_patterns: inputs *)

\* [d for d in dangers if d["resulted_in_goal"]], the focus set of main()
GoalsOnly(refs) == SelectSeq(refs, LAMBDA r : MomentPool[r].resulted_in_goal)

\* (min_subseq_similarity, min_match_frequency, min_occurrences, min_lift);
\* the first is the default configuration of find_patterns, the last switches
\* the occurrence and lift filters off
Configs ==
    {<<<<85, 100>>, 2, 3, <<115, 100>>>>,
     <<<<85, 100>>, 1, 1, <<13333, 10000>>>>,
     <<<<1, 2>>, 1, 1, <<115, 100>>>>,
     <<<<85, 100>>, 1, 0, <<0, 1>>>>}

\* thresholds of the runs on nested fingerprints: a similarity threshold
\* between 1/2 and 2/3, and the default one
NestedConfigs ==
    {<<<<3, 5>>, 1, 1, <<1, 1>>>>,
     <<<<85, 100>>, 1, 1, <<115, 100>>>>}

IdleSim == sim_a = <<>> /\ sim_b = <<>> /\ sim_out = None
IdleFp ==
    /\ fp_risk_df = None /\ fp_peak = 0 /\ fp_window = 0 /\ fp_stopwords = None
    /\ fp_top_k = 0 /\ fp_tables = None /\ fp_out = None
IdleFpat ==
    /\ all_dangers = <<>> /\ baseline_dangers = None
    /\ min_subseq_similarity = <<85, 100>> /\ min_match_frequency = 2
    /\ min_occurrences = 3 /\ min_lift = <<115, 100>>
    /\ pc = "idle" /\ idx = 0 /\ clusters = <<>> /\ out = <<>>
    /\ run = 0 /\ first_out = None
IdleEn ==
    /\ en_mode = None /\ en_matches = <<>> /\ en_detected = <<>>
    /\ en_pc = "idle" /\ en_idx = 0 /\ en_calls = <<>> /\ en_all_dangers = <<>>
IdleSc == sc_in = None /\ sc_pc = "idle" /\ sc_out = None

\* a plausible slip: the cluster list outlives the call (a module-level list
\* or a mutable default argument)
LeftoverClusters == clusters

\* clusters: List[Pattern] = []
InitialClusters == <<>>

Init ==
    /\ \E population \in SeqsUpTo(MomentRefs, MaxBase) :
       \E focus \in {population, GoalsOnly(population)} :
          /\ all_dangers = focus
          /\ baseline_dangers \in {None, Some(population), Some(<<>>)}
    /\ \E cfg \in Configs :
          /\ min_subseq_similarity = cfg[1]
          /\ min_match_frequency = cfg[2]
          /\ min_occurrences = cfg[3]
          /\ min_lift = cfg[4]
    /\ pc = "cluster" /\ idx = 1 /\ clusters = <<>> /\ out = <<>>
    /\ run = 1 /\ first_out = None
    /\ IdleSim /\ IdleFp /\ IdleEn /\ IdleSc

\* find_patterns on nested fingerprints
InitNested ==
    /\ \E population \in SeqsUpTo(NestedRefs, MaxBase) :
       \E focus \in {population, GoalsOnly(population)} :
          /\ all_dangers = focus
          /\ baseline_dangers \in {None, Some(population)}
    /\ \E cfg \in NestedConfigs :
          /\ min_subseq_similarity = cfg[1]
          /\ min_match_frequency = cfg[2]
          /\ min_occurrences = cfg[3]
          /\ min_lift = cfg[4]
    /\ pc = "cluster" /\ idx = 1 /\ clusters = <<>> /\ out = <<>>
    /\ run = 1 /\ first_out = None
    /\ IdleSim /\ IdleFp /\ IdleEn /\ IdleSc

--------------------------------------------------------------------------
(* find_patterns: one action per loop iteration *)

Others == UNCHANGED <<simVars, fpVars, enVars, scVars>>

\* `continue`: the moment changes no cluster
SkipMoment ==
    /\ pc = "cluster" /\ idx <= Len(all_dangers)
    /\ SkippedByClusterer(FocusMoment(idx))
    /\ idx' = idx + 1
    /\ UNCHANGED <<fpatArgs, pc, clusters, out, run, first_out>>
    /\ Others

\* the moment joins the cluster the inner loop breaks at
AttachMoment ==
    /\ pc = "cluster" /\ idx <= Len(all_dangers)
    /\ ~SkippedByClusterer(FocusMoment(idx))
    /\ LET d == FocusMoment(idx)
           k == FirstFit(d.fingerprint_seq, clusters, min_subseq_similarity)
       IN  /\ k # 0
           /\ clusters' = [clusters EXCEPT ![k] = Attach(clusters[k], d, idx)]
    /\ idx' = idx + 1
    /\ UNCHANGED <<fpatArgs, pc, out, run, first_out>>
    /\ Others

\* `if not placed`: a new cluster is appended
NewCluster ==
    /\ pc = "cluster" /\ idx <= Len(all_dangers)
    /\ ~SkippedByClusterer(FocusMoment(idx))
    /\ LET d == FocusMoment(idx)
       IN  /\ FirstFit(d.fingerprint_seq, clusters, min_subseq_similarity) = 0
           /\ clusters' = Append(clusters, NewPattern(d, idx))
    /\ idx' = idx + 1
    /\ UNCHANGED <<fpatArgs, pc, out, run, first_out>>
    /\ Others

\* the clustering loop is exhausted: out = [] and the scoring loop starts
EndClustering ==
    /\ pc = "cluster" /\ idx > Len(all_dangers)
    /\ pc' = "score" /\ idx' = 1 /\ out' = <<>>
    /\ UNCHANGED <<fpatArgs, clusters, run, first_out>>
    /\ Others

\* one of the `continue`s of the scoring loop
DiscardCluster ==
    /\ pc = "score" /\ idx <= Len(clusters)
    /\ Discarded(Locals(clusters[idx]))
    /\ idx' = idx + 1
    /\ UNCHANGED <<fpatArgs, pc, clusters, out, run, first_out>>
    /\ Others

\* out.append({...})
AppendResult ==
    /\ pc = "score" /\ idx <= Len(clusters)
    /\ LET loc == Locals(clusters[idx])
       IN  /\ ~Discarded(loc)
           /\ out' = Append(out, ResultOf(clusters[idx], idx, loc))
    /\ idx' = idx + 1
    /\ UNCHANGED <<fpatArgs, pc, clusters, run, first_out>>
    /\ Others

\* the scoring loop is exhausted: out.sort(...); return out
SortAndReturn ==
    /\ pc = "score" /\ idx > Len(clusters)
    /\ out' = SortResults(out)
    /\ pc' = "done"
    /\ UNCHANGED <<fpatArgs, idx, clusters, run, first_out>>
    /\ Others

\* find_patterns is called a second time with the same arguments; first_out
\* keeps the list the first call returned
Rerun ==
    /\ pc = "done" /\ run = 1
    /\ first_out' = Some(out)
    /\ run' = 2
    /\ pc' = "cluster" /\ idx' = 1
    /\ clusters' = InitialClusters
    /\ out' = <<>>
    /\ UNCHANGED fpatArgs
    /\ Others

Next ==
    \/ SkipMoment
    \/ AttachMoment
    \/ NewCluster
    \/ EndClustering
    \/ DiscardCluster
    \/ AppendResult
    \/ SortAndReturn
    \/ Rerun

Spec == Init /\ [][Next]_vars

SpecNested == InitNested /\ [][Next]_vars

--------------------------------------------------------------------------
(* subseq_similarity as a one-step machine over bounded arguments *)

SimCodes == {"PROGRESSION", "CREATING CHANCES", "CORNER"}

InitSim ==
    /\ sim_a \in SeqsUpTo(SimCodes, MaxSeqLen)
    /\ sim_b \in SeqsUpTo(SimCodes, MaxSeqLen)
    /\ sim_out = None
    /\ IdleFp /\ IdleFpat /\ IdleEn /\ IdleSc

ComputeSimilarity ==
    /\ IsNone(sim_out)
    /\ sim_out' = Some(subseq_similarity(sim_a, sim_b))
    /\ UNCHANGED <<sim_a, sim_b, fpVars, fpatVars, enVars, scVars>>

NextSim == ComputeSimilarity

SpecSim == InitSim /\ [][NextSim]_vars

--------------------------------------------------------------------------
(* build_fingerprint_sequence as a one-step machine over bounded arguments *)

\* the active_events cells a timeline row is drawn from: code lists (one
\* with a repeated and an empty code) and a missing value
RowPool ==
    {Some(<<"PROGRESSION", "ATTACKING TRANSITION">>),
     Some(<<"GOALS", "SET PIECES", "CREATING CHANCES">>),
     Some(<<"CORNER", "PROGRESSION", "CORNER", "">>),
     Some(<<"GOALS", "SET PIECES">>),
     None}

\* a per-second timeline: row i carries timestamp_sec = i
Timeline(cells) ==
    [i \in 1..Len(cells) |-> [timestamp_sec |-> i, active_events |-> cells[i]]]

\* OPPONENT_WEIGHTS and BARCA_WEIGHTS of risk_engine: all codes unweighted,
\* or two tables that rank the codes differently
WeightTables ==
    {[opponent |-> <<>>, barca |-> <<>>],
     [opponent |-> ("PROGRESSION" :> 3 @@ "CORNER" :> 8),
      barca |-> ("PROGRESSION" :> 6 @@ "CREATING CHANCES" :> 5)]}

InitFp ==
    /\ fp_risk_df \in
          {None} \cup
          {Some([columns_ok |-> ok, rows |-> Timeline(cells)]) :
              ok \in BOOLEAN, cells \in SeqsUpTo(RowPool, MaxRows)}
    /\ fp_peak \in 1..MaxRows
    /\ fp_window \in {1, DEFAULT_FINGERPRINT_WINDOW_SEC}
    /\ fp_stopwords \in {None, Some({"PROGRESSION"}), Some({"GOALS", "SET PIECES"})}
    /\ fp_top_k \in 0..MaxTopK
    /\ fp_tables \in {Some(t) : t \in WeightTables}
    /\ fp_out = None
    /\ IdleSim /\ IdleFpat /\ IdleEn /\ IdleSc

BuildFingerprint ==
    /\ IsNone(fp_out)
    /\ fp_out' = Some(build_fingerprint_sequence(fp_risk_df, fp_peak, fp_window,
                                                 fp_stopwords, fp_top_k, fp_tables.val))
    /\ UNCHANGED <<fp_risk_df, fp_peak, fp_window, fp_stopwords, fp_top_k, fp_tables>>
    /\ UNCHANGED <<simVars, fpatVars, enVars, scVars>>

NextFp == BuildFingerprint

SpecFp == InitFp /\ [][NextFp]_vars

--------------------------------------------------------------------------
(* build_all_matches_dangers_for_patterns: helpers *)

\* a mode string is the sequence of its characters
ModeAll == <<"a", "l", "l">>
ModeGoals == <<"g", "o", "a", "l", "s">>
ModeCritical == <<"c", "r", "i", "t", "i", "c", "a", "l">>
VALID_MODES == {ModeAll, ModeGoals, ModeCritical}

UpperToLower ==
    "A" :> "a" @@ "C" :> "c" @@ "G" :> "g" @@ "I" :> "i" @@ "L" :> "l" @@
    "O" :> "o" @@ "R" :> "r" @@ "S" :> "s" @@ "T" :> "t"

Whitespace == {" ", "\t", "\n"}

\* str.lower()
StrLower(str) ==
    [i \in 1..Len(str) |->
        IF str[i] \in DOMAIN UpperToLower THEN UpperToLower[str[i]] ELSE str[i]]

\* str.strip(): leading and trailing whitespace removed
RECURSIVE StrLStrip(_)
StrLStrip(str) ==
    IF str # <<>> /\ Head(str) \in Whitespace THEN StrLStrip(Tail(str)) ELSE str

RECURSIVE StrRStrip(_)
StrRStrip(str) ==
    IF str # <<>> /\ str[Len(str)] \in Whitespace
    THEN StrRStrip(SubSeq(str, 1, Len(str) - 1))
    ELSE str

StrStrip(str) == StrRStrip(StrLStrip(str))

\* a plausible slip: the mode is compared as given (None still means "all")
NormalizeModeVerbatim(mode) ==
    IF IsNone(mode) \/ mode.val = <<>> THEN ModeAll ELSE mode.val

\* mode = (mode or "all").lower().strip()
NormalizeMode(mode) ==
    StrStrip(StrLower(IF IsNone(mode) \/ mode.val = <<>> THEN ModeAll ELSE mode.val))

\* a plausible slip: an unknown mode is only noticed after the loop over the
\* matches
ModeCheckDueAfterLoop == en_pc = "loop" /\ en_idx > Len(en_matches)

\* where `if mode not in {...}: raise ValueError` stands: on entry, before
\* the loop over the matches
ModeCheckDue == en_pc = "start"

ModeRejected == ModeCheckDue /\ NormalizeMode(en_mode) \notin VALID_MODES

\* str(d.get("severity", "")).lower() for the severities the detector yields
SeverityLower(sev) == IF sev \in {"CRITICAL", "Critical"} THEN "critical" ELSE sev

\* a plausible slip: the filter is forgotten and every moment is enriched
KeepEveryMoment(dangers, mode) == dangers

\* the mode filter applied to the detector's moments ("Filter BEFORE
\* fingerprinting"); any mode but goals and critical keeps every moment
FilterByMode(dangers, mode) ==
    IF mode = ModeGoals THEN SelectSeq(dangers, LAMBDA d : d.resulted_in_goal)
    ELSE IF mode = ModeCritical
         THEN SelectSeq(dangers, LAMBDA d : SeverityLower(d.severity) = "critical")
         ELSE dangers

\* sorted(times)
RECURSIVE InsertAsc(_, _)
InsertAsc(sorted, x) ==
    IF sorted = <<>> THEN <<x>>
    ELSE IF Head(sorted) <= x THEN <<Head(sorted)>> \o InsertAsc(Tail(sorted), x)
    ELSE <<x>> \o sorted

RECURSIVE SortAsc(_, _)
SortAsc(seq, i) == IF i = 0 THEN <<>> ELSE InsertAsc(SortAsc(seq, i - 1), seq[i])

\* _get_opponent_goal_times for an events frame that has its columns: the
\* start seconds of the GOALS rows whose Team is not Barca, sorted
GetOpponentGoalTimes(events) ==
    LET goals == SelectSeq(events, LAMBDA e : e.code = "GOALS" /\ ~e.team_is_barca)
        times == [i \in 1..Len(goals) |-> goals[i].start_sec]
    IN  SortAsc(times, Len(times))

\* _next_goal_delta_sec
RECURSIVE NextGoalFrom(_, _, _, _)
NextGoalFrom(peak_time, times, i, max_lookahead) ==
    IF i > Len(times) THEN None
    ELSE IF times[i] >= peak_time
         THEN (IF times[i] - peak_time <= max_lookahead
               THEN Some(times[i] - peak_time) ELSE None)
         ELSE NextGoalFrom(peak_time, times, i + 1, max_lookahead)

NextGoalDeltaSec(peak_time, times, max_lookahead) ==
    IF IsEmpty(times) THEN None ELSE NextGoalFrom(peak_time, times, 1, max_lookahead)

\* the collaborators' answers for a match (data_loader, risk_engine): the
\* events frame, the risk timeline, and the weight tables of risk_engine
EventsOf(match_name) ==
    <<[code |-> "GOALS", team_is_barca |-> TRUE, start_sec |-> 1],
      [code |-> "PROGRESSION", team_is_barca |-> FALSE, start_sec |-> 1],
      [code |-> "GOALS", team_is_barca |-> FALSE, start_sec |-> 2 + match_name]>>

RiskDfOf(match_name) ==
    Some([columns_ok |-> TRUE,
          rows |-> Timeline(<<Some(<<"PROGRESSION", "ATTACKING TRANSITION">>),
                              Some(<<"GOALS", "SET PIECES", "CREATING CHANCES">>),
                              Some(<<"CORNER", "PROGRESSION", "CORNER", "">>)>>)])

RiskEngineTables ==
    [opponent |-> ("PROGRESSION" :> 3 @@ "CORNER" :> 8),
     barca |-> ("PROGRESSION" :> 6 @@ "CREATING CHANCES" :> 5)]

TIME_TO_GOAL_LOOKAHEAD_SEC == 120

\* dd = dict(d) with match_name, fingerprint_seq and time_to_goal_sec added
EnrichMoment(d, match_name) ==
    Moment(match_name, d.peak_time, d.severity, d.resulted_in_goal,
           build_fingerprint_sequence(RiskDfOf(match_name), d.peak_time,
                                      DEFAULT_FINGERPRINT_WINDOW_SEC,
                                      Some(DEFAULT_STOPWORDS), DEFAULT_TOP_K_CODES,
                                      RiskEngineTables),
           NextGoalDeltaSec(d.peak_time, GetOpponentGoalTimes(EventsOf(match_name)),
                            TIME_TO_GOAL_LOOKAHEAD_SEC))

\* the moments one iteration of `for match_name in matches` appends
EnrichedOf(match_name, dangers, mode) ==
    LET kept == FilterByMode(dangers, mode)
    IN  [i \in 1..Len(kept) |-> EnrichMoment(kept[i], match_name)]

\* the collaborator calls of one iteration, in call order
CallsFor(match_name) ==
    <<[fn |-> "load_events", match |-> match_name],
      [fn |-> "compute_risk_score", match |-> match_name],
      [fn |-> "detect_danger_moments", match |-> match_name]>>

--------------------------------------------------------------------------
(* build_all_matches_dangers_for_patterns: inputs and actions *)

LowerToUpper ==
    "a" :> "A" @@ "c" :> "C" @@ "g" :> "G" @@ "i" :> "I" @@ "l" :> "L" @@
    "o" :> "O" @@ "r" :> "R" @@ "s" :> "S" @@ "t" :> "T"

UpperCased(str) == [i \in 1..Len(str) |-> LowerToUpper[str[i]]]
Capitalized(str) == [i \in 1..Len(str) |-> IF i = 1 THEN LowerToUpper[str[i]] ELSE str[i]]

\* the mode arguments tried: None, "", " ", and the three modes and two other
\* words in three spellings, bare or padded with whitespace, or split by a blank
ModeInputs ==
    LET words == VALID_MODES \cup {<<"g", "o", "a", "l">>, <<"a", "l", "l", "s">>}
        spelled == UNION {{w, UpperCased(w), Capitalized(w)} : w \in words}
        padded == UNION {{w, <<" ">> \o w, w \o <<"\n">>, <<"\t">> \o w \o <<" ">>} :
                            w \in spelled}
        split == {<<Head(w)>> \o <<" ">> \o Tail(w) : w \in words}
    IN  {None, Some(<<>>), Some(<<" ">>)} \cup {Some(w) : w \in padded \cup split}

Danger(t, sev, goal) == [peak_time |-> t, severity |-> sev, resulted_in_goal |-> goal]

\* what detect_danger_moments may return for a match
DetectorOutputs ==
    {<<Danger(2, "critical", TRUE), Danger(3, "normal", FALSE)>>,
     <<Danger(1, "elevated", FALSE), Danger(2, "critical", TRUE),
       Danger(3, "normal", FALSE), Danger(3, "critical", FALSE)>>}

InitEnrich ==
    /\ en_mode \in ModeInputs
    /\ en_matches \in SeqsUpTo(1..MaxMatches, MaxMatches)
    /\ en_detected \in [1..MaxMatches -> DetectorOutputs]
    /\ en_pc = "start" /\ en_idx = 0 /\ en_calls = <<>> /\ en_all_dangers = <<>>
    /\ IdleSim /\ IdleFp /\ IdleFpat /\ IdleSc

OthersEn == UNCHANGED <<simVars, fpVars, fpatVars, scVars>>

\* raise ValueError("mode must be one of: 'all', 'goals', 'critical'")
RaiseValueError ==
    /\ ModeRejected
    /\ en_pc' = "raised"
    /\ UNCHANGED <<enArgs, en_idx, en_calls, en_all_dangers>>
    /\ OthersEn

\* the mode is accepted and the loop over the matches starts
EnterLoop ==
    /\ en_pc = "start"
    /\ ~ModeRejected
    /\ en_pc' = "loop" /\ en_idx' = 1
    /\ UNCHANGED <<enArgs, en_calls, en_all_dangers>>
    /\ OthersEn

\* one iteration of `for match_name in matches`
EnrichMatch ==
    /\ en_pc = "loop" /\ en_idx <= Len(en_matches)
    /\ LET match_name == en_matches[en_idx]
       IN  /\ en_calls' = en_calls \o CallsFor(match_name)
           /\ en_all_dangers' =
                 en_all_dangers \o
                 EnrichedOf(match_name, en_detected[match_name], NormalizeMode(en_mode))
    /\ en_idx' = en_idx + 1
    /\ UNCHANGED <<enArgs, en_pc>>
    /\ OthersEn

\* return all_dangers
ReturnAllDangers ==
    /\ en_pc = "loop" /\ en_idx > Len(en_matches)
    /\ ~ModeRejected
    /\ en_pc' = "returned"
    /\ UNCHANGED <<enArgs, en_idx, en_calls, en_all_dangers>>
    /\ OthersEn

NextEnrich ==
    \/ RaiseValueError
    \/ EnterLoop
    \/ EnrichMatch
    \/ ReturnAllDangers

SpecEnrich == InitEnrich /\ [][NextEnrich]_vars

--------------------------------------------------------------------------
(* The scoring step of find_patterns (one iteration of `for c in clusters`) *)
(* on given counts, under the default thresholds                          *)

RECURSIVE Gcd(_, _)
Gcd(a, b) == IF b = 0 THEN a ELSE Gcd(b, a % b)

\* the values baseline_goal_rate = base_goals / base_occ can take, in lowest
\* terms
ScoreRates ==
    {<<g, B>> : g \in 0..MaxRateDen, B \in 1..MaxRateDen} \cap
    {r \in (0..MaxRateDen) \X (1..MaxRateDen) : r[1] <= r[2] /\ Gcd(r[1], r[2]) = 1}

\* the ci_level arguments tried: the default 0.90, 0.5 and 0.1
ScoreCiLevels == {DEFAULT_CI_LEVEL, <<1, 2>>, <<1, 10>>}

\* what the scoring loop has in hand for a cluster: match_count from the
\* cluster, occurrences and goals_for_pattern from the recount, and
\* baseline_goal_rate, and the ci_level argument.  A baseline without goals has no goal occurrence, one
\* with goals only has no other occurrence.
ScoreInputs ==
    {in \in [match_count : 1..MaxScoreMatches, occurrences : 0..MaxScoreOcc,
             goals_for_pattern : 0..MaxScoreOcc, baseline_goal_rate : ScoreRates,
             ci_level : ScoreCiLevels] :
        /\ in.goals_for_pattern <= in.occurrences
        /\ in.baseline_goal_rate[1] = 0 => in.goals_for_pattern = 0
        /\ in.baseline_goal_rate[1] = in.baseline_goal_rate[2] =>
              in.goals_for_pattern = in.occurrences}

\* the locals of the iteration for these counts (no time_to_goal_sec known)
ScoreLocals(in) ==
    LET rate == PatternGoalRate(in.goals_for_pattern, in.occurrences)
    IN  [match_count |-> in.match_count,
         occurrences |-> in.occurrences,
         goals_for_pattern |-> in.goals_for_pattern,
         deltas |-> {},
         pattern_goal_rate |-> rate,
         baseline_goal_rate |-> in.baseline_goal_rate,
         lift |-> Lift(rate, in.baseline_goal_rate),
         ci_level |-> in.ci_level]

\* a cluster with that many matches
ScoreCluster(in) ==
    [sequence |-> FpPC, matches |-> 1..in.match_count, examples |-> <<>>,
     goals_in_pattern |-> in.goals_for_pattern, members |-> <<>>]

InitScore ==
    /\ sc_in \in {Some(in) : in \in ScoreInputs}
    /\ sc_pc = "score" /\ sc_out = None
    /\ IdleSim /\ IdleFp /\ IdleFpat /\ IdleEn

OthersSc == UNCHANGED <<simVars, fpVars, fpatVars, enVars>>

\* one of the `continue`s
ScoreDiscard ==
    /\ sc_pc = "score"
    /\ Discarded(ScoreLocals(sc_in.val))
    /\ sc_pc' = "discarded"
    /\ UNCHANGED <<sc_in, sc_out>>
    /\ OthersSc

\* out.append({...})
ScoreAppend ==
    /\ sc_pc = "score"
    /\ LET loc == ScoreLocals(sc_in.val)
       IN  /\ ~Discarded(loc)
           /\ sc_out' = Some(ResultOf(ScoreCluster(sc_in.val), 1, loc))
    /\ sc_pc' = "appended"
    /\ UNCHANGED sc_in
    /\ OthersSc

NextScore ==
    \/ ScoreDiscard
    \/ ScoreAppend

SpecScore == InitScore /\ [][NextScore]_vars

--------------------------------------------------------------------------
(* Properties of subseq_similarity *)

\* s is an ordered, not necessarily contiguous, subsequence of l: there is a
\* strictly increasing map of the positions of s into equal elements of l
OrderedSubsequence(s, l) ==
    \E f \in [1..Len(s) -> 1..Len(l)] :
        /\ \A i, j \in 1..Len(s) : i < j => f[i] < f[j]
        /\ \A i \in 1..Len(s) : l[f[i]] = s[i]

\* C4: subseq_similarity(a, b) is 1.0 when both are empty, 0.0 when exactly
\* one is empty, otherwise len(shorter)/len(longer) if the shorter sequence is
\* an ordered subsequence of the longer one and 0.0 if not; the result lies in
\* [0,1], similarity(s, s) = 1.0, and a result > 0 implies that one of a, b is
\* an ordered subsequence of the other.
C4_SimilarityContract ==
    ~IsNone(sim_out) =>
        LET r == sim_out.val
            shorter == IF Len(sim_a) <= Len(sim_b) THEN sim_a ELSE sim_b
            longer == IF Len(sim_a) <= Len(sim_b) THEN sim_b ELSE sim_a
        IN  /\ (Len(sim_a) = 0 /\ Len(sim_b) = 0) => RatEq(r, <<1, 1>>)
            /\ ((Len(sim_a) = 0) # (Len(sim_b) = 0)) => r[1] = 0
            /\ (Len(sim_a) > 0 /\ Len(sim_b) > 0) =>
                  IF OrderedSubsequence(shorter, longer)
                  THEN RatEq(r, <<Len(shorter), Len(longer)>>)
                  ELSE r[1] = 0
            /\ r[2] > 0 /\ 0 <= r[1] /\ r[1] <= r[2]
            /\ sim_a = sim_b => RatEq(r, <<1, 1>>)
            /\ r[1] > 0 =>
                  OrderedSubsequence(sim_a, sim_b) \/ OrderedSubsequence(sim_b, sim_a)

\* the shorter argument is a non-contiguous subsequence of the longer one
\* and the similarity returned is 2/3
C4_Witness ==
    /\ ~IsNone(sim_out)
    /\ Len(sim_a) = 3 /\ Len(sim_b) = 2
    /\ sim_a[1] = sim_b[1] /\ sim_a[3] = sim_b[2] /\ sim_a[2] # sim_b[2]
    /\ sim_out.val = <<2, 3>>

--------------------------------------------------------------------------
(* Properties of build_fingerprint_sequence *)

EffectiveStopwords ==
    IF IsNone(fp_stopwords) THEN DEFAULT_STOPWORDS ELSE fp_stopwords.val

\* C5: for a non-negative top-K the returned fingerprint has length <= top-K,
\* contains no code twice, and contains no code of the stopword set.
C5_FingerprintInvariants ==
    (~IsNone(fp_out) /\ fp_top_k >= 0) =>
        LET seq == fp_out.val
        IN  /\ Len(seq) <= fp_top_k
            /\ \A i, j \in 1..Len(seq) : i # j => seq[i] # seq[j]
            /\ \A i \in 1..Len(seq) : seq[i] \notin EffectiveStopwords

\* three distinct non-stopword codes and two stopwords enter in the window,
\* one code enters twice, and the fingerprint is cut to top_k = 2 codes
C5_Witness ==
    /\ ~IsNone(fp_out) /\ ~IsNone(fp_risk_df)
    /\ fp_risk_df.val.columns_ok
    /\ Len(fp_risk_df.val.rows) = 3
    /\ fp_risk_df.val.rows[1].active_events = Some(<<"PROGRESSION", "ATTACKING TRANSITION">>)
    /\ fp_risk_df.val.rows[2].active_events = Some(<<"GOALS", "SET PIECES", "CREATING CHANCES">>)
    /\ fp_risk_df.val.rows[3].active_events = Some(<<"CORNER", "PROGRESSION", "CORNER", "">>)
    /\ fp_peak = 3 /\ fp_window = DEFAULT_FINGERPRINT_WINDOW_SEC
    /\ IsNone(fp_stopwords) /\ fp_top_k = 2
    /\ Len(fp_out.val) = 2

--------------------------------------------------------------------------
(* Properties of the clustering pass of find_patterns *)

Range(seq) == {seq[i] : i \in 1..Len(seq)}

Fingerprint(i) == FocusMoment(i).fingerprint_seq

\* the clusters whose representative reaches the threshold for fingerprint fp
Reaching(fp) ==
    {k \in 1..Len(clusters) :
        RatGeq(subseq_similarity(fp, clusters[k].sequence), min_subseq_similarity)}

C1_Step ==
    (pc = "cluster" /\ idx <= Len(all_dangers)) =>
        LET fp == Fingerprint(idx)
            skipped == \/ Len(fp) < 2
                       \/ (REQUIRE_CAUSE_CODE /\ \A i \in 1..Len(fp) : fp[i] \notin CAUSE_CODES)
            n == Len(clusters)
        IN  /\ idx' = idx + 1
            /\ skipped => clusters' = clusters
            /\ (~skipped /\ Reaching(fp) = {}) =>
                  /\ Len(clusters') = n + 1
                  /\ \A j \in 1..n : clusters'[j] = clusters[j]
                  /\ clusters'[n + 1].sequence = fp
                  /\ clusters'[n + 1].members = <<idx>>
            /\ (~skipped /\ Reaching(fp) # {}) =>
                  LET k == CHOOSE x \in Reaching(fp) : \A y \in Reaching(fp) : x <= y
                  IN  /\ Len(clusters') = n
                      /\ \A j \in 1..n : j # k => clusters'[j] = clusters[j]
                      /\ clusters'[k].members = Append(clusters[k].members, idx)
            /\ ~skipped =>
                  Cardinality({k \in 1..Len(clusters') : idx \in Range(clusters'[k].members)}) = 1

\* C1: moments are processed in input order; a moment whose fingerprint is
\* empty, shorter than 2 codes or without a required cause code changes no
\* cluster; every other moment is attached to exactly one cluster, the
\* earliest-created one whose representative at that instant reaches the
\* threshold, even when a later cluster scores higher, and otherwise starts a
\* new cluster at the end with its fingerprint as representative and itself
\* as only member.
C1_FirstFit == [][C1_Step]_vars

\* the third moment has just joined cluster 1 although cluster 2, created
\* later, scores strictly higher for its fingerprint
C1_Witness ==
    /\ pc = "cluster" /\ idx = 4 /\ run = 1
    /\ Len(clusters) = 2
    /\ clusters[1].members = <<1, 3>>
    /\ clusters[2].members = <<2>>
    /\ RatGeq(subseq_similarity(Fingerprint(3), clusters[1].sequence), min_subseq_similarity)
    /\ ~RatGeq(subseq_similarity(Fingerprint(3), clusters[1].sequence),
               subseq_similarity(Fingerprint(3), clusters[2].sequence))

\* C6: at every point of the clustering pass each cluster's representative is
\* the fingerprint of one of its attached moments, its length is the minimum
\* fingerprint length over the moments attached so far, and it is the
\* earliest attached fingerprint of that length (a later one of equal length
\* never replaces it).
C6_Representative ==
    \A k \in 1..Len(clusters) :
        LET c == clusters[k]
        IN  /\ Len(c.members) > 0
            /\ \A j \in 1..Len(c.members) :
                  Len(c.sequence) <= Len(Fingerprint(c.members[j]))
            /\ \E j \in 1..Len(c.members) :
                  /\ c.sequence = Fingerprint(c.members[j])
                  /\ \A i \in 1..(j - 1) :
                        Len(Fingerprint(c.members[i])) > Len(c.sequence)

\* a cluster whose representative was replaced by the strictly shorter
\* fingerprint of its second member and kept when a third member of the same
\* length joined
C6_Witness ==
    \E k \in 1..Len(clusters) :
        LET c == clusters[k]
        IN  /\ Len(c.members) >= 3
            /\ c.sequence = Fingerprint(c.members[2])
            /\ Len(Fingerprint(c.members[1])) > Len(c.sequence)
            /\ Len(Fingerprint(c.members[3])) = Len(c.sequence)

--------------------------------------------------------------------------
(* Properties of the scoring pass and of the returned list *)

\* baseline moments with a fingerprint of length >= 2 whose similarity with
\* seq reaches the threshold
BaselineMatching(seq) ==
    {i \in 1..Len(Base) :
        /\ Len(BaseMoment(i).fingerprint_seq) >= 2
        /\ RatGeq(subseq_similarity(BaseMoment(i).fingerprint_seq, seq),
                  min_subseq_similarity)}

\* C2: in every PatternResult occurrences is the number of valid baseline
\* moments whose similarity with the cluster's final representative reaches
\* the threshold and goals_in_pattern the number of those that resulted in a
\* goal, whatever the cluster's members and running goal counter are.
C2_BaselineRecount ==
    \A n \in 1..Len(out) :
        LET p == out[n]
        IN  /\ p.sequence = clusters[p.cluster].sequence
            /\ p.occurrences = Cardinality(BaselineMatching(p.sequence))
            /\ p.goals_in_pattern =
                  Cardinality({i \in BaselineMatching(p.sequence) :
                                  BaseMoment(i).resulted_in_goal})

\* a returned result whose counts differ from the number of moments attached
\* to its cluster and from the cluster's goal counter
C2_Witness ==
    /\ pc = "done"
    /\ \E n \in 1..Len(out) :
          /\ out[n].occurrences # Len(clusters[out[n].cluster].members)
          /\ out[n].goals_in_pattern # clusters[out[n].cluster].goals_in_pattern

\* min_lift rounded as the published lift is (round(x, 3))
MinLiftRounded == RoundHalfEven(min_lift[1], min_lift[2], 1000)

\* the claim as stated: the published, rounded lift is compared with min_lift
C3_PublishedLiftAboveMinLift ==
    \A n \in 1..Len(out) :
        LET p == out[n]
        IN  /\ p.match_count >= min_match_frequency
            /\ p.occurrences >= min_occurrences
            /\ p.baseline_goal_rate > 0 => p.lift * min_lift[2] >= min_lift[1] * 1000

\* C3 (amended): every PatternResult has match_count >= min_match_frequency
\* and occurrences >= min_occurrences; the lift before rounding is >= min_lift
\* and, whenever the published baseline_goal_rate > 0, the published lift is >=
\* min_lift rounded to three decimals.
C3_ThresholdsHold ==
    \A n \in 1..Len(out) :
        LET p == out[n]
            c == clusters[p.cluster]
            rate == PatternGoalRate(p.goals_in_pattern, p.occurrences)
        IN  /\ p.match_count >= min_match_frequency
            /\ p.occurrences >= min_occurrences
            /\ RatGeq(Lift(rate, BaselineGoalRate), min_lift)
            /\ p.baseline_goal_rate > 0 => p.lift >= MinLiftRounded

\* a result passed the filter with lift 4/3 >= 1.3333 and is published with
\* lift 1.333
C3_Witness ==
    /\ pc = "done"
    /\ min_lift = <<13333, 10000>>
    /\ \E n \in 1..Len(out) :
          /\ out[n].baseline_goal_rate > 0
          /\ out[n].lift = 1333

\* C7: the returned list is in descending lexicographic order of
\* (confidence_score, lift, match_count, occurrences), and results with equal
\* tuples keep their cluster-creation order.
C7_SortedDescending ==
    pc = "done" =>
        \A n \in 1..(Len(out) - 1) :
            /\ LexGeq(SortKey(out[n]), SortKey(out[n + 1]))
            /\ SortKey(out[n]) = SortKey(out[n + 1]) => out[n].cluster < out[n + 1].cluster

\* the sort moved the result of a later cluster, with a strictly greater
\* tuple, in front of the result of an earlier one
C7_Witness ==
    /\ pc = "done"
    /\ \E n \in 1..(Len(out) - 1) :
          /\ out[n].cluster > out[n + 1].cluster
          /\ SortKey(out[n]) # SortKey(out[n + 1])

--------------------------------------------------------------------------
(* Properties of build_all_matches_dangers_for_patterns *)

Accepted == en_pc \in {"loop", "returned"}

\* the claim as stated: exactly the three values all, goals, critical are
\* accepted and every other value raises
C9_ExactlyThreeModes ==
    /\ Accepted => en_mode \in {Some(m) : m \in VALID_MODES}
    /\ en_pc = "raised" => en_mode \notin {Some(m) : m \in VALID_MODES}

\* str is one of the three mode words in any mix of upper and lower case,
\* with whitespace before and after it
SpellsMode(str) ==
    \E w \in VALID_MODES : \E lead \in 0..Len(str) :
        /\ Len(str) >= lead + Len(w)
        /\ \A i \in 1..lead : str[i] \in Whitespace
        /\ \A i \in 1..Len(w) : str[lead + i] \in {w[i], LowerToUpper[w[i]]}
        /\ \A i \in (lead + Len(w) + 1)..Len(str) : str[i] \in Whitespace

\* C9 (amended): the mode is accepted exactly when it is None or the empty
\* string, or spells all, goals or critical in any letter case with optional
\* surrounding whitespace; every other string raises the error instead of
\* returning a list.
C9_ModesAccepted ==
    LET fine == IsNone(en_mode) \/ en_mode.val = <<>> \/ SpellsMode(en_mode.val)
    IN  /\ Accepted => fine
        /\ en_pc = "raised" => ~fine
        /\ en_pc = "start" => (ENABLED RaiseValueError <=> ~fine)

\* the call returned a list for the mode "\tGOALS "
C9_Witness ==
    /\ en_pc = "returned"
    /\ en_mode = Some(<<"\t", "G", "O", "A", "L", "S", " ">>)
    /\ Len(en_matches) > 0

\* C10: when the mode is rejected, the error is raised before any
\* collaborator has been called for any match and before any enriched moment
\* exists; nothing is returned.
C10_FailsFast ==
    en_pc = "raised" =>
        /\ en_calls = <<>>
        /\ en_all_dangers = <<>>
        /\ en_idx = 0

\* the call was given matches to work on and raised for the mode "goal"
C10_Witness ==
    /\ en_pc = "raised"
    /\ en_mode = Some(<<"g", "o", "a", "l">>)
    /\ Len(en_matches) = MaxMatches

\* str spells the mode word w in any letter case, with whitespace around it
Spells(str, w) ==
    \E lead \in 0..Len(str) :
        /\ Len(str) >= lead + Len(w)
        /\ \A i \in 1..lead : str[i] \in Whitespace
        /\ \A i \in 1..Len(w) : str[lead + i] \in {w[i], LowerToUpper[w[i]]}
        /\ \A i \in (lead + Len(w) + 1)..Len(str) : str[i] \in Whitespace

\* the mode the call runs in
ModeWord ==
    IF IsNone(en_mode) \/ en_mode.val = <<>> THEN ModeAll
    ELSE CHOOSE w \in VALID_MODES : Spells(en_mode.val, w)

\* the moment passes the filter of the mode
Passes(d, w) ==
    /\ w = ModeGoals => d.resulted_in_goal
    /\ w = ModeCritical => d.severity = "critical"

\* positions, in the detector's list for the p-th match, of the moments that
\* pass the filter
KeptAt(p) ==
    LET dangers == en_detected[en_matches[p]]
    IN  {i \in 1..Len(dangers) : Passes(dangers[i], ModeWord)}

\* number of moments the matches before the p-th contribute
RECURSIVE KeptBefore(_)
KeptBefore(p) == IF p <= 1 THEN 0 ELSE KeptBefore(p - 1) + Cardinality(KeptAt(p - 1))

\* C11: for a valid mode, after the first n matches have been handled the
\* list holds exactly one enriched moment per detector moment that passes the
\* mode filter and none for the others, match after match in the order of the
\* matches argument and inside a match in the detector's order, each carrying
\* the name of its match and the detector's fields; a match with 4 moments of
\* which 1 resulted in a goal contributes exactly 1 moment in goals mode.
C11_FilteredInOrder ==
    Accepted =>
        LET n == en_idx - 1
        IN  /\ Len(en_all_dangers) = KeptBefore(n + 1)
            /\ \A p \in 1..n : \A i \in KeptAt(p) :
                  LET d == en_detected[en_matches[p]][i]
                      rank == Cardinality({j \in KeptAt(p) : j <= i})
                      e == en_all_dangers[KeptBefore(p) + rank]
                  IN  /\ e.match_name = en_matches[p]
                      /\ e.peak_time = d.peak_time
                      /\ e.severity = d.severity
                      /\ e.resulted_in_goal = d.resulted_in_goal
            /\ (en_pc = "returned" => n = Len(en_matches))

\* goals mode returned, for two different matches, the first with 4 detector
\* moments of which 1 resulted in a goal, exactly 1 moment for the first match
C11_Witness ==
    /\ en_pc = "returned"
    /\ ModeWord = ModeGoals
    /\ Len(en_matches) = 2 /\ en_matches[1] # en_matches[2]
    /\ Len(en_detected[en_matches[1]]) = 4
    /\ Cardinality({i \in 1..4 : en_detected[en_matches[1]][i].resulted_in_goal}) = 1
    /\ Cardinality({k \in 1..Len(en_all_dangers) :
                        en_all_dangers[k].match_name = en_matches[1]}) = 1
    /\ Len(en_all_dangers) = 2

--------------------------------------------------------------------------
(* Properties of find_patterns on degenerate input *)

EmptyBaseline == baseline_dangers = Some(<<>>)

\* the claim as stated: with an empty baseline set every cluster is discarded
\* whatever the thresholds, and the list is empty
C12_EmptyBaselineReturnsNothing ==
    EmptyBaseline => out = <<>>

\* C12 (amended): with an empty baseline set the baseline goal rate is 0,
\* every cluster has 0 occurrences, goal rate 0 and lift 0 (no division is
\* attempted), and a cluster is discarded whenever min_occurrences > 0 or
\* min_lift > 0, so that the list is empty then; with both thresholds <= 0 a
\* cluster is kept when its match count reaches min_match_frequency, and
\* its record publishes occurrences 0, baseline goal rate 0 and lift 0.
C12_EmptyBaseline ==
    EmptyBaseline =>
        /\ BaseOcc = 0 /\ BaselineGoalRate = <<0, 1>>
        /\ \A k \in 1..Len(clusters) :
              /\ Locals(clusters[k]).occurrences = 0
              /\ Locals(clusters[k]).pattern_goal_rate = <<0, 1>>
              /\ Locals(clusters[k]).lift = <<0, 1>>
        /\ (min_occurrences > 0 \/ min_lift[1] > 0) => out = <<>>
        /\ \A r \in 1..Len(out) :
              /\ out[r].occurrences = 0 /\ out[r].lift = 0
              /\ out[r].baseline_goal_rate = 0
              /\ out[r].match_count >= min_match_frequency
        /\ (pc = "done" /\ min_occurrences <= 0 /\ min_lift[1] <= 0) =>
              Len(out) = Cardinality({k \in 1..Len(clusters) :
                             Cardinality(clusters[k].matches) >= min_match_frequency})

\* a call with an empty baseline set and positive thresholds built two
\* clusters, one of them with goals, and returned the empty list
C12_Witness ==
    /\ EmptyBaseline /\ pc = "done"
    /\ min_lift[1] > 0 /\ min_occurrences > 0
    /\ Len(clusters) >= 2
    /\ \E k \in 1..Len(clusters) : clusters[k].goals_in_pattern > 0
    /\ out = <<>>

--------------------------------------------------------------------------
(* Properties of the confidence fields *)

\* the published confidence_score (units of 10^-4) and tier of a record
\* agree with the cutoffs 0.70 and 0.45
TierMatchesPublished(r) ==
    /\ r.confidence_tier = "high" <=> r.confidence_score >= 7000
    /\ r.confidence_tier = "medium" <=>
          (r.confidence_score >= 4500 /\ r.confidence_score < 7000)
    /\ r.confidence_tier = "low" <=> r.confidence_score < 4500

\* the claim as stated: in every record the tier is the one the published
\* confidence_score falls in
C13_TierOfPublishedScore ==
    sc_pc = "appended" => TierMatchesPublished(sc_out.val)

\* C13 (amended): the tier is the one the unrounded confidence score falls
\* in (high from 0.70, medium from 0.45, else low); the published score is
\* that score rounded to 4 decimals, so the tier is the one the published
\* score falls in except that a published 0.7 may carry medium and a
\* published 0.45 may carry low.
C13_TierOfUnroundedScore ==
    sc_pc = "appended" =>
        LET r == sc_out.val
            loc == ScoreLocals(sc_in.val)
            score == ConfidenceMicro(
                         ProbGtBaseline(loc.goals_for_pattern, loc.occurrences,
                                        loc.baseline_goal_rate), loc)
        IN  /\ r.confidence_tier = "high" <=> score >= 700000
            /\ r.confidence_tier = "medium" <=> (score >= 450000 /\ score < 700000)
            /\ r.confidence_tier = "low" <=> score < 450000
            /\ r.confidence_score > 7000 => r.confidence_tier = "high"
            /\ r.confidence_score = 7000 => r.confidence_tier \in {"high", "medium"}
            /\ (r.confidence_score > 4500 /\ r.confidence_score < 7000) =>
                  r.confidence_tier = "medium"
            /\ r.confidence_score = 4500 => r.confidence_tier \in {"medium", "low"}
            /\ r.confidence_score < 4500 => r.confidence_tier = "low"

\* a record that publishes confidence_score 0.7 with the tier medium
C13_Witness ==
    /\ sc_pc = "appended"
    /\ sc_out.val.confidence_score = 7000
    /\ sc_out.val.confidence_tier = "medium"

--------------------------------------------------------------------------
(* The record and the test runner *)

\* the keys test_pattern_analyzer.main reads from each of the first ten
\* results
RunnerKeys ==
    {"frequency", "occurrences", "goals_in_pattern", "pattern_goal_rate",
     "baseline_goal_rate", "lift", "confidence_score", "confidence_tier",
     "p_goal_rate_gt_baseline", "ci90_low", "ci90_high", "sequence",
     "example_matches"}

\* C14: every result of find_patterns has every key the test runner reads,
\* so that the runner prints a non-empty list without a KeyError.
C14_RunnerKeysPresent ==
    \A r \in 1..Len(out) : RunnerKeys \subseteq DOMAIN out[r]

--------------------------------------------------------------------------
(* Properties of the Bayesian fields *)

\* the distribution function of Beta(a, b), a and b positive integers, at the
\* rational x is 1 - P(Bin(a + b - 1, x) <= a - 1); compared with the rational q
BetaCdfGeq(x, a, b, q) ==
    LET tail == ProbGtBaseline(a - 1, a + b - 2, x)
    IN  (tail[2] - tail[1]) * q[2] >= q[1] * tail[2]

BetaCdfLeq(x, a, b, q) ==
    LET tail == ProbGtBaseline(a - 1, a + b - 2, x)
    IN  (tail[2] - tail[1]) * q[2] <= q[1] * tail[2]

\* the quantile is <= x exactly when its level is <= the distribution
\* function at x, and >= x exactly when its level is >= it
QuantileLeq(ppf, x) == BetaCdfGeq(x, ppf.a, ppf.b, ppf.quantile)
QuantileGeq(ppf, x) == BetaCdfLeq(x, ppf.a, ppf.b, ppf.quantile)

\* ci_low <= posterior mean <= ci_high for the record, the mean being
\* (goals_in_pattern + 1) / (occurrences + 2); rounding to 4 decimals keeps
\* the order
MeanInsideInterval(r) ==
    LET mean == <<r.goals_in_pattern + 1, r.occurrences + 2>>
    IN  /\ QuantileLeq(r.ci_low, mean)
        /\ QuantileGeq(r.ci_high, mean)

ProbabilitiesInRange(r) ==
    /\ 0 <= r.p_goal_rate_gt_baseline /\ r.p_goal_rate_gt_baseline <= 10000
    /\ 0 <= r.confidence_score /\ r.confidence_score <= 10000

\* the claim as stated: for every ci_level in (0,1) the interval contains the
\* posterior mean, and the two probabilities lie in [0,1]
C15_MeanInsideAnyInterval ==
    sc_pc = "appended" =>
        /\ MeanInsideInterval(sc_out.val)
        /\ ProbabilitiesInRange(sc_out.val)

\* C15 (amended): for every record, p_goal_rate_gt_baseline and
\* confidence_score lie in [0,1] and ci_low <= ci_high; the interval is that
\* of the posterior Beta(goals_in_pattern + 1, occurrences - goals_in_pattern
\* + 1), and it contains the posterior mean when ci_level >= 0.5, in
\* particular for the default 0.90.  For a small ci_level the interval
\* closes in on the posterior median and can leave the mean outside.
C15_MeanInsideWideInterval ==
    sc_pc = "appended" =>
        LET r == sc_out.val
        IN  /\ ProbabilitiesInRange(r)
            /\ r.ci_low.a = r.goals_in_pattern + 1
            /\ r.ci_low.b = r.occurrences - r.goals_in_pattern + 1
            /\ r.ci_high.a = r.ci_low.a /\ r.ci_high.b = r.ci_low.b
            /\ r.ci_low.quantile[1] * r.ci_high.quantile[2] <=
                  r.ci_high.quantile[1] * r.ci_low.quantile[2]
            /\ 2 * r.ci_level[1] >= r.ci_level[2] => MeanInsideInterval(r)

\* a record with the default ci_level for a pattern whose 3 occurrences all
\* resulted in a goal (posterior Beta(4, 1), mean 0.8, median 0.84)
C15_Witness ==
    /\ sc_pc = "appended"
    /\ sc_out.val.ci_level = DEFAULT_CI_LEVEL
    /\ sc_out.val.occurrences = 3 /\ sc_out.val.goals_in_pattern = 3
    /\ sc_out.val.ci_low.a = 4 /\ sc_out.val.ci_low.b = 1

--------------------------------------------------------------------------
(* The fingerprint as a selection of the entering codes *)

FpRows == fp_risk_df.val.rows

\* row i of the timeline lies in the window [max(T - W, timeline_min), T]
\* (no row lies before timeline_min)
InWindow(i) ==
    /\ FpRows[i].timestamp_sec <= fp_peak
    /\ FpRows[i].timestamp_sec >= fp_peak - fp_window

\* the codes listed at row i, in their order
ListedAt(i) ==
    IF IsNone(FpRows[i].active_events) THEN <<>> ELSE FpRows[i].active_events.val

\* the non-stopword codes active at row i
ActiveAt(i) ==
    {c \in Range(ListedAt(i)) : c # "" /\ c \notin EffectiveStopwords}

\* code c enters at row i: active there, and not active at the previous row
\* of the window (if there is one)
EntersAt(c, i) ==
    /\ InWindow(i) /\ c \in ActiveAt(i)
    /\ \A j \in 1..(i - 1) :
          (InWindow(j) /\ \A m \in (j + 1)..(i - 1) : ~InWindow(m)) => c \notin ActiveAt(j)

EnteringCodes ==
    UNION {{c \in ActiveAt(i) : EntersAt(c, i)} : i \in 1..Len(FpRows)}

\* c enters for the first time before d does: at an earlier row, or at the
\* same row and listed earlier there
EntersBefore(c, d) ==
    \E i \in 1..Len(FpRows) : \E p \in 1..Len(ListedAt(i)) :
        /\ EntersAt(c, i) /\ ListedAt(i)[p] = c
        /\ \A j \in 1..(i - 1) : ~EntersAt(d, j)
        /\ \A q \in 1..p : ListedAt(i)[q] # d

\* the timeline can be walked: it is there, has rows and both columns
Walkable ==
    /\ ~IsNone(fp_risk_df)
    /\ fp_risk_df.val.columns_ok
    /\ Len(fp_risk_df.val.rows) > 0

ScenarioA ==
    /\ Walkable /\ Len(FpRows) = 2
    /\ FpRows[1].active_events = Some(<<"PROGRESSION", "ATTACKING TRANSITION">>)
    /\ FpRows[2].active_events = Some(<<"GOALS", "SET PIECES">>)
    /\ fp_peak = 2 /\ fp_window = DEFAULT_FINGERPRINT_WINDOW_SEC
    /\ fp_stopwords = Some({"GOALS", "SET PIECES"})
    /\ fp_top_k = 4
    /\ fp_tables.val.opponent = <<>> /\ fp_tables.val.barca = <<>>

\* C16: the fingerprint lists codes that enter the active set in the window,
\* none of them a stopword, without repetition and in the order of their
\* first entry; it has min(top-K, number of entering codes) codes; no dropped
\* code outweighs a kept one; and the codes PROGRESSION, ATTACKING TRANSITION,
\* GOALS, SET PIECES with stopwords {GOALS, SET PIECES}, top-K 4 and equal
\* weights give [PROGRESSION, ATTACKING TRANSITION].
C16_SelectionOfEnteringCodes ==
    (~IsNone(fp_out) /\ Walkable) =>
        LET seq == fp_out.val
            kept == Range(seq)
        IN  /\ kept \subseteq EnteringCodes
            /\ \A a, b \in 1..Len(seq) : a < b => EntersBefore(seq[a], seq[b])
            /\ Len(seq) = Min(fp_top_k, Cardinality(EnteringCodes))
            /\ \A c \in kept : \A d \in EnteringCodes \ kept :
                  CodeWeight(fp_tables.val, d) <= CodeWeight(fp_tables.val, c)
            /\ ScenarioA => seq = <<"PROGRESSION", "ATTACKING TRANSITION">>

\* the scenario's call has returned
C16_Witness ==
    /\ ~IsNone(fp_out)
    /\ ScenarioA
    /\ Cardinality(EnteringCodes) = 2

--------------------------------------------------------------------------
(* Representatives of different clusters *)

Representatives == {clusters[k].sequence : k \in 1..Len(clusters)}

\* the claim as stated: no two clusters hold the same representative, and no
\* two results carry the same sequence
C17_DistinctRepresentatives ==
    /\ \A i, j \in 1..Len(clusters) :
          i # j => clusters[i].sequence # clusters[j].sequence
    /\ \A i, j \in 1..Len(out) : i # j => out[i].sequence # out[j].sequence

\* the representative of cluster k is no longer the fingerprint it was
\* created with
Shrunk(k) == clusters[k].sequence # Fingerprint(clusters[k].members[1])

\* a step of the clustering loop appends a cluster
AppendsCluster == pc = "cluster" /\ Len(clusters') = Len(clusters) + 1

\* C17 (amended): a new cluster never starts with the representative of an
\* existing cluster; two clusters can come to hold the same representative
\* only after the representative of the earlier-created one has been replaced
\* by a shorter fingerprint, and then both can be returned with the same
\* sequence; with the default threshold 0.85 all representatives stay distinct.
C17_DistinctWhenCreated ==
    /\ [][AppendsCluster =>
             clusters'[Len(clusters')].sequence \notin Representatives]_vars
    /\ [](\A i, j \in 1..Len(clusters) :
             (i < j /\ clusters[i].sequence = clusters[j].sequence) => Shrunk(i))
    /\ [](min_subseq_similarity = <<85, 100>> => C17_DistinctRepresentatives)

\* a run with threshold 0.6 has returned two results with the same sequence
C17_Witness ==
    /\ pc = "done"
    /\ min_subseq_similarity = <<3, 5>>
    /\ Len(clusters) = 2 /\ clusters[1].sequence = clusters[2].sequence
    /\ Len(out) = 2 /\ out[1].sequence = out[2].sequence

--------------------------------------------------------------------------
(* The default threshold on fingerprints of at most four codes *)

DefaultRun == min_subseq_similarity = DEFAULT_MIN_SUBSEQ_SIMILARITY

\* fingerprints the clusterer and the baseline recount accept, of at most
\* DEFAULT_TOP_K_CODES codes
Admitted(fp) == Len(fp) >= MIN_PATTERN_LEN /\ Len(fp) <= DEFAULT_TOP_K_CODES

\* the similarity of moment i of the focus list with cluster k is strictly
\* between 0 and 1
NearMatch(i, k) ==
    LET sim == subseq_similarity(Fingerprint(i), clusters[k].sequence)
    IN  sim[1] > 0 /\ sim[1] < sim[2]

\* C18: with the default threshold 0.85 and fingerprints of 2 to 4 codes, a
\* fingerprint reaches the threshold against a representative exactly when
\* the two are identical; every member of a cluster has the representative as
\* its fingerprint, the representative is still the fingerprint the cluster
\* was created with, and the occurrences of a result are the valid baseline
\* moments whose fingerprint equals the result's sequence.
C18_DefaultMatchesIdenticalOnly ==
    DefaultRun =>
        /\ \A k \in 1..Len(clusters) :
              /\ \A i \in 1..Len(all_dangers) :
                    Admitted(Fingerprint(i)) =>
                        (Matches(Fingerprint(i), clusters[k].sequence,
                                 min_subseq_similarity)
                            <=> Fingerprint(i) = clusters[k].sequence)
              /\ \A i \in 1..Len(Base) :
                    Admitted(BaseMoment(i).fingerprint_seq) =>
                        (Matches(BaseMoment(i).fingerprint_seq,
                                 clusters[k].sequence, min_subseq_similarity)
                            <=> BaseMoment(i).fingerprint_seq = clusters[k].sequence)
              /\ \A n \in 1..Len(clusters[k].members) :
                    Fingerprint(clusters[k].members[n]) = clusters[k].sequence
        /\ \A n \in 1..Len(out) :
              out[n].occurrences =
                  Cardinality({i \in 1..Len(Base) :
                                  /\ ValidSeq(BaseMoment(i))
                                  /\ BaseMoment(i).fingerprint_seq = out[n].sequence})

\* a default run has ended with a cluster of two moments, a moment that shares
\* three of four codes with another cluster's representative, and a result
C18_Witness ==
    /\ DefaultRun /\ pc = "done"
    /\ \E k \in 1..Len(clusters) : Len(clusters[k].members) >= 2
    /\ \E k \in 1..Len(clusters) : \E i \in 1..Len(all_dangers) :
          /\ NearMatch(i, k)
          /\ Len(Fingerprint(i)) = 3 /\ Len(clusters[k].sequence) = 4
    /\ Len(out) >= 1 /\ out[1].occurrences >= 1

==========================================================================
